---- MODULE Spec2Model ----
(***************************************************************************)
(* Template registry, document parser, template engine and transport      *)
(* routes of the article formatter (services/templateRepository,          *)
(* services/documentParser, services/templateEngine, routes/api).         *)
(***************************************************************************)
EXTENDS Integers, Sequences, FiniteSets, TLC

VARIABLES templates, order, defaultTemplate, last, inflight, memo

vars == <<templates, order, defaultTemplate, last, inflight, memo>>

\* a call that starts no asynchronous work and is not remembered
Quiet == UNCHANGED <<inflight, memo>>

(***************************************************************************)
(* Bounds of the explored inputs.                                          *)
(***************************************************************************)
MaxThreshold == 2
MaxSections == 3
MaxParagraphs == 2
MaxLines == 3
MaxRenderSections == 5
MaxRepeatSections == 2
MaxInflight == 2
MaxImages == 11

(***************************************************************************)
(* selectTemplate values.  A function stored in a template is a record    *)
(* naming the code that runs when it is called; "undefined" is a missing  *)
(* property and "notfn" a truthy value that is not a function.            *)
(***************************************************************************)
Fn(kind, a, b) == [kind |-> kind, a |-> a, b |-> b]
UndefinedFn == Fn("undefined", 0, 0)
NotAFunction == Fn("notfn", 0, 0)
BusinessFn == Fn("business", 0, 0)
SimpleFn == Fn("simple", 0, 0)
EducationFn == Fn("education", 0, 0)
CreativeFn == Fn("creative", 0, 0)

IsFunction(f) == f.kind \notin {"undefined", "notfn"}

\* the business rule with its upper boundary one lower
_selectBusinessTemplate_Below2(imageCount) ==
  IF imageCount > 0 /\ imageCount < 2 THEN "double-image-with-caption"
  ELSE IF imageCount >= 2 THEN "double-image-no-caption"
  ELSE "single-image"

_selectBusinessTemplate(imageCount) ==
  IF imageCount > 0 /\ imageCount <= 2 THEN "double-image-with-caption"
  ELSE IF imageCount >= 3 THEN "double-image-no-caption"
  ELSE "single-image"

_selectSimpleTemplate(imageCount) == "single-image"

_selectEducationTemplate(imageCount) ==
  IF imageCount > 0 /\ imageCount <= 1 THEN "single-image"
  ELSE IF imageCount >= 2 THEN "double-image-with-caption"
  ELSE "single-image"

_selectCreativeTemplate(imageCount) ==
  IF imageCount > 0 /\ imageCount <= 2 THEN "double-image-with-caption"
  ELSE IF imageCount >= 3 THEN "double-image-no-caption"
  ELSE "single-image"

\* the closure returned for imageRules: the function it builds
_createCustomSelectTemplate(imageRules) ==
  Fn("custom", imageRules.minImagesForDoubleNoCaption,
               imageRules.minImagesForDoubleWithCaption)

\* the closure with its two tests in the other order
customSelectTemplate_CaptionTestFirst(f, imageCount) ==
  IF imageCount >= f.b THEN "double-image-with-caption"
  ELSE IF imageCount >= f.a THEN "double-image-no-caption"
  ELSE "single-image"

\* body of that closure
customSelectTemplate(f, imageCount) ==
  IF imageCount >= f.a THEN "double-image-no-caption"
  ELSE IF imageCount >= f.b THEN "double-image-with-caption"
  ELSE "single-image"

\* template.selectTemplate(imageCount)
CallSelect(f, imageCount) ==
  CASE f.kind = "business" -> _selectBusinessTemplate(imageCount)
    [] f.kind = "simple" -> _selectSimpleTemplate(imageCount)
    [] f.kind = "education" -> _selectEducationTemplate(imageCount)
    [] f.kind = "creative" -> _selectCreativeTemplate(imageCount)
    [] f.kind = "custom" -> customSelectTemplate(f, imageCount)
    [] f.kind = "user" -> "double-image-no-caption"

(***************************************************************************)
(* Values held in, or looked up from, the templates object.                *)
(***************************************************************************)
Template(id, name, description, selectTemplate) ==
  [jstype |-> "object", id |-> id, name |-> name,
   description |-> description, selectTemplate |-> selectTemplate]

\* null / undefined: what a failed lookup yields
Null ==
  [jstype |-> "null", id |-> "", name |-> "", description |-> "",
   selectTemplate |-> UndefinedFn]

\* the value every plain object inherits under the key "constructor": the
\* Object function, which is truthy and has neither description nor
\* selectTemplate
ObjectConstructor ==
  [jstype |-> "function", id |-> "", name |-> "Object", description |-> "",
   selectTemplate |-> UndefinedFn]

\* keys that this.templates[key] finds on the prototype of the object literal
InheritedKeys == {"constructor"}

BuiltInIds == {"business", "simple", "education", "creative"}

InitialTemplates ==
  [id \in BuiltInIds |->
     CASE id = "business" ->
            Template("business", "business-name", "business-description", BusinessFn)
       [] id = "simple" ->
            Template("simple", "simple-name", "simple-description", SimpleFn)
       [] id = "education" ->
            Template("education", "education-name", "education-description", EducationFn)
       [] id = "creative" ->
            Template("creative", "creative-name", "creative-description", CreativeFn)]

InitialOrder == <<"business", "simple", "education", "creative">>

\* ids that are canonical array indices: an object enumerates them first, in
\* ascending numeric order, before the string keys in insertion order
IntegerValue == [id \in {"7", "10"} |-> IF id = "7" THEN 7 ELSE 10]
IntegerLikeIds == DOMAIN IntegerValue

RECURSIVE Ascending(_)
Ascending(S) ==
  IF S = {} THEN <<>>
  ELSE LET m == CHOOSE x \in S : \A y \in S : IntegerValue[x] <= IntegerValue[y]
       IN <<m>> \o Ascending(S \ {m})

\* Object.keys(this.templates); order holds the string keys in the order of
\* their insertion
ObjectKeys(T, O) == Ascending(DOMAIN T \cap IntegerLikeIds) \o O

\* this.templates[key]
Property(T, key) ==
  IF key \in DOMAIN T THEN T[key]
  ELSE IF key \in InheritedKeys THEN ObjectConstructor
  ELSE Null

Truthy(v) == v.jstype # "null"

getTemplateById(templateId) == Property(templates, templateId)

getDefaultTemplate == Property(templates, defaultTemplate)

(***************************************************************************)
(* Repository methods.  Each yields the error thrown ("" when the call    *)
(* returns) and the registry after the call.                               *)
(***************************************************************************)
Outcome(err, T, O, d) ==
  [err |-> err, templates |-> T, order |-> O, defaultTemplate |-> d]

Thrown(err) == Outcome(err, templates, order, defaultTemplate)

setDefaultTemplate(templateId) ==
  IF Truthy(Property(templates, templateId))
  THEN Outcome("", templates, order, templateId)
  ELSE Outcome("", templates, order, defaultTemplate)

\* addTemplate that overwrites an existing id
addTemplate_Overwrites(template) ==
  IF ~Truthy(template) THEN Thrown("EmptyTemplate")
  ELSE IF template.id = "" \/ template.name = ""
          \/ template.selectTemplate = UndefinedFn
  THEN Thrown("MissingProperties")
  ELSE IF ~IsFunction(template.selectTemplate) THEN Thrown("NotAFunction")
  ELSE Outcome("",
               [id \in DOMAIN templates \cup {template.id} |->
                  IF id = template.id THEN template ELSE templates[id]],
               IF template.id \in IntegerLikeIds \/ template.id \in DOMAIN templates
               THEN order ELSE Append(order, template.id),
               defaultTemplate)

\* addTemplate that tests for a function before it tests for a duplicate
addTemplate_FunctionTestFirst(template) ==
  IF ~Truthy(template) THEN Thrown("EmptyTemplate")
  ELSE IF template.id = "" \/ template.name = ""
          \/ template.selectTemplate = UndefinedFn
  THEN Thrown("MissingProperties")
  ELSE IF ~IsFunction(template.selectTemplate) THEN Thrown("NotAFunction")
  ELSE IF Truthy(Property(templates, template.id)) THEN Thrown("DuplicateId")
  ELSE Outcome("",
               [id \in DOMAIN templates \cup {template.id} |->
                  IF id = template.id THEN template ELSE templates[id]],
               IF template.id \in IntegerLikeIds THEN order
               ELSE Append(order, template.id),
               defaultTemplate)

addTemplate(template) ==
  IF ~Truthy(template) THEN Thrown("EmptyTemplate")
  ELSE IF template.id = "" \/ template.name = ""
          \/ template.selectTemplate = UndefinedFn
  THEN Thrown("MissingProperties")
  ELSE IF Truthy(Property(templates, template.id)) THEN Thrown("DuplicateId")
  ELSE IF ~IsFunction(template.selectTemplate) THEN Thrown("NotAFunction")
  ELSE Outcome("",
               [id \in DOMAIN templates \cup {template.id} |->
                  IF id = template.id THEN template ELSE templates[id]],
               IF template.id \in IntegerLikeIds THEN order
               ELSE Append(order, template.id),
               defaultTemplate)

\* removeTemplate without the guard that keeps the last template
removeTemplate_NoLastGuard(templateId) ==
  IF templateId = "" THEN Thrown("MissingId")
  ELSE IF ~Truthy(Property(templates, templateId)) THEN Thrown("NotFound")
  ELSE LET T == [id \in DOMAIN templates \ {templateId} |-> templates[id]]
           O == SelectSeq(order, LAMBDA k : k # templateId)
           templateIds == ObjectKeys(T, O)
       IN Outcome("", T, O,
                  IF defaultTemplate = templateId
                  THEN IF Len(templateIds) > 0 THEN templateIds[1] ELSE ""
                  ELSE defaultTemplate)

\* removeTemplate that leaves the default alone when the default is removed
removeTemplate_KeepsDefault(templateId) ==
  IF templateId = "" THEN Thrown("MissingId")
  ELSE IF ~Truthy(Property(templates, templateId)) THEN Thrown("NotFound")
  ELSE IF Cardinality(DOMAIN templates) <= 1 THEN Thrown("LastTemplateRemaining")
  ELSE Outcome("", [id \in DOMAIN templates \ {templateId} |-> templates[id]],
               SelectSeq(order, LAMBDA k : k # templateId), defaultTemplate)

removeTemplate(templateId) ==
  IF templateId = "" THEN Thrown("MissingId")
  ELSE IF ~Truthy(Property(templates, templateId)) THEN Thrown("NotFound")
  ELSE IF Cardinality(DOMAIN templates) <= 1 THEN Thrown("LastTemplateRemaining")
  ELSE LET T == [id \in DOMAIN templates \ {templateId} |-> templates[id]]
           O == SelectSeq(order, LAMBDA k : k # templateId)
           templateIds == ObjectKeys(T, O)
       IN Outcome("", T, O,
                  IF defaultTemplate = templateId
                  THEN IF Len(templateIds) > 0 THEN templateIds[1] ELSE ""
                  ELSE defaultTemplate)

\* createCustomTemplate that always takes the default template as the base
createCustomTemplate_IgnoresBase(templateConfig) ==
  IF templateConfig.id = "" \/ templateConfig.name = ""
  THEN Thrown("MissingIdOrName")
  ELSE IF Truthy(Property(templates, templateConfig.id)) THEN Thrown("DuplicateId")
  ELSE LET base == getDefaultTemplate
           selectTemplate ==
             IF templateConfig.imageRules.present
             THEN _createCustomSelectTemplate(templateConfig.imageRules)
             ELSE base.selectTemplate
           newTemplate ==
             Template(templateConfig.id, templateConfig.name,
                      IF templateConfig.description # ""
                      THEN templateConfig.description ELSE base.description,
                      selectTemplate)
       IN addTemplate(newTemplate)

\* createCustomTemplate that writes the template whether or not the id is taken
createCustomTemplate_Overwrites(templateConfig) ==
  IF templateConfig.id = "" \/ templateConfig.name = ""
  THEN Thrown("MissingIdOrName")
  ELSE LET base == IF templateConfig.baseTemplate # ""
                      /\ Truthy(Property(templates, templateConfig.baseTemplate))
                   THEN Property(templates, templateConfig.baseTemplate)
                   ELSE getDefaultTemplate
           selectTemplate ==
             IF templateConfig.imageRules.present
             THEN _createCustomSelectTemplate(templateConfig.imageRules)
             ELSE base.selectTemplate
           newTemplate ==
             Template(templateConfig.id, templateConfig.name,
                      IF templateConfig.description # ""
                      THEN templateConfig.description ELSE base.description,
                      selectTemplate)
       IN addTemplate_Overwrites(newTemplate)

createCustomTemplate(templateConfig) ==
  IF templateConfig.id = "" \/ templateConfig.name = ""
  THEN Thrown("MissingIdOrName")
  ELSE IF Truthy(Property(templates, templateConfig.id)) THEN Thrown("DuplicateId")
  ELSE LET base == IF templateConfig.baseTemplate # ""
                      /\ Truthy(Property(templates, templateConfig.baseTemplate))
                   THEN Property(templates, templateConfig.baseTemplate)
                   ELSE getDefaultTemplate
           selectTemplate ==
             IF templateConfig.imageRules.present
             THEN _createCustomSelectTemplate(templateConfig.imageRules)
             ELSE base.selectTemplate
           newTemplate ==
             Template(templateConfig.id, templateConfig.name,
                      IF templateConfig.description # ""
                      THEN templateConfig.description ELSE base.description,
                      selectTemplate)
       IN addTemplate(newTemplate)

(***************************************************************************)
(* Documents.                                                              *)
(***************************************************************************)
Section(type, content, position, manualEdit) ==
  [type |-> type, content |-> content, position |-> position,
   manualEdit |-> manualEdit]

\* positions are numbers; 0 stands for a position the request left out
Content(title, sections) ==
  [jstype |-> "object", hasSections |-> TRUE, title |-> title,
   sections |-> sections]

NoContent ==
  [jstype |-> "null", hasSections |-> FALSE, title |-> "", sections |-> <<>>]

\* an object without a sections property
ContentWithoutSections ==
  [jstype |-> "object", hasSections |-> FALSE, title |-> "title",
   sections |-> <<>>]

\* variant: every section that is neither text nor subtitle is counted
ImageCount_CountsUnknown(sections) ==
  Cardinality({i \in DOMAIN sections :
                 sections[i].type \notin {"text", "subtitle"}})

\* sections.filter(s => s.type === 'image').length
ImageCount(sections) ==
  Cardinality({i \in DOMAIN sections : sections[i].type = "image"})

(***************************************************************************)
(* Paragraph classification.  A paragraph is its text, its length and the *)
(* set of tests of _isImagePlaceholder and _isSubtitle that its text      *)
(* passes, each named after the constant that holds the test's result.    *)
(***************************************************************************)
Paragraph(text, length, matches) ==
  [text |-> text, length |-> length, matches |-> matches]

BlankLine == Paragraph("", 0, {})

(***************************************************************************)
(* The two patterns that look at a leading enumerator, on a text given as *)
(* the sequence of the classes of its characters: "digit" (0-9), "dot"    *)
(* (.), "dunhao" (、), "numeral" (一 to 十), "zhang" (章), "di" (第) and     *)
(* "other".                                                                *)
(***************************************************************************)
\* the number of leading characters of the text that are of these classes
RECURSIVE LeadingRun(_, _)
LeadingRun(chars, classes) ==
  IF chars = <<>> \/ Head(chars) \notin classes THEN 0
  ELSE 1 + LeadingRun(Tail(chars), classes)

\* variant: /^\d[\.\、]/, a single digit
isImageCaptionFormat_OneDigit(chars) ==
  /\ Len(chars) >= 2
  /\ chars[1] = "digit"
  /\ chars[2] \in {"dot", "dunhao"}

\* /^\d+[\.\、]/.test(text.trim())
isImageCaptionFormat(chars) ==
  LET digits == LeadingRun(chars, {"digit"})
  IN /\ digits >= 1
     /\ Len(chars) > digits
     /\ chars[digits + 1] \in {"dot", "dunhao"}

\* /^(第?[一二三四五六七八九十章]+|[\d]+[、.])/i.test(text.trim())
hasChapterIndicator(chars) ==
  LET afterDi == IF chars # <<>> /\ Head(chars) = "di" THEN Tail(chars) ELSE chars
      digits == LeadingRun(chars, {"digit"})
  IN \/ LeadingRun(afterDi, {"numeral", "zhang"}) >= 1
     \/ /\ digits >= 1
        /\ Len(chars) > digits
        /\ chars[digits + 1] \in {"dunhao", "dot"}

\* the tests of the classifier that a text of these characters passes, when
\* it has no keyword, no marker and no punctuation at its end
EnumeratorTests(chars) ==
  (IF isImageCaptionFormat(chars) THEN {"isImageCaptionFormat"} ELSE {})
  \cup (IF hasChapterIndicator(chars) THEN {"hasChapterIndicator"} ELSE {})

_isImagePlaceholder(text) ==
  LET m == text.matches
      image == [isImage |-> TRUE, caption |-> text.text]
  IN IF "hasImageMarker" \in m THEN image
     ELSE IF "hasTuWord" \in m /\ "matchesNumberPattern" \in m THEN image
     ELSE IF "isImageOnly" \in m THEN image
     ELSE IF "hasImageCaptionKeyword" \in m THEN image
     ELSE IF "isImageCaptionFormat" \in m THEN image
     ELSE IF "matchesImageDescription" \in m THEN image
     ELSE IF "startsWithTu" \in m THEN image
     ELSE IF "hasTuWord" \in m /\ "tuCaptionPattern" \in m THEN image
     ELSE [isImage |-> FALSE, caption |-> ""]

\* variant: the preceding section is not looked at
_isSubtitle_NoContext(text, sections) ==
  LET m == text.matches
      shortText == text.length <= 30
      isParallelStructure ==
        "hasListSeparator" \in m /\ "hasActivityWord" \in m
  IN /\ shortText
     /\ \/ "hasSubtitleKeyword" \in m
        \/ "matchesSpecialPattern" \in m
        \/ "endsWithSubtitleEnding" \in m
        \/ "endsWithColon" \in m
        \/ "hasChapterIndicator" \in m
        \/ isParallelStructure
     /\ "endsWithBodyPunctuation" \notin m

_isSubtitle(text, sections) ==
  LET m == text.matches
      shortText == text.length <= 30
      isParallelStructure ==
        "hasListSeparator" \in m /\ "hasActivityWord" \in m
      hasPreviousSubtitle ==
        Len(sections) > 0 /\ sections[Len(sections)].type = "subtitle"
      isListItemStyle ==
        hasPreviousSubtitle /\ "startsWithBodyWord" \notin m
          /\ text.length <= 20
  IN /\ shortText
     /\ \/ "hasSubtitleKeyword" \in m
        \/ "matchesSpecialPattern" \in m
        \/ "endsWithSubtitleEnding" \in m
        \/ "endsWithColon" \in m
        \/ "hasChapterIndicator" \in m
        \/ isListItemStyle
        \/ isParallelStructure
     /\ "endsWithBodyPunctuation" \notin m

\* variant: the subtitle test is made before the image test
RECURSIVE AnalyzeFrom_SubtitleFirst(_, _, _)
AnalyzeFrom_SubtitleFirst(paragraphs, i, sections) ==
  IF i > Len(paragraphs) THEN sections
  ELSE LET paragraph == paragraphs[i]
           position == Len(sections) + 1
           imageInfo == _isImagePlaceholder(paragraph)
       IN IF paragraph = BlankLine
          THEN AnalyzeFrom_SubtitleFirst(paragraphs, i + 1, sections)
          ELSE IF _isSubtitle(paragraph, sections)
          THEN AnalyzeFrom_SubtitleFirst(paragraphs, i + 1,
                 Append(sections, [type |-> "subtitle", content |-> paragraph.text,
                                   position |-> position]))
          ELSE IF imageInfo.isImage
          THEN AnalyzeFrom_SubtitleFirst(paragraphs, i + 1,
                 Append(sections, [type |-> "image", content |-> imageInfo.caption,
                                   position |-> position]))
          ELSE AnalyzeFrom_SubtitleFirst(paragraphs, i + 1,
                 Append(sections, [type |-> "text", content |-> paragraph.text,
                                   position |-> position]))

RECURSIVE AnalyzeFrom(_, _, _)
AnalyzeFrom(paragraphs, i, sections) ==
  IF i > Len(paragraphs) THEN sections
  ELSE LET paragraph == paragraphs[i]
           position == Len(sections) + 1
           imageInfo == _isImagePlaceholder(paragraph)
       IN IF paragraph = BlankLine THEN AnalyzeFrom(paragraphs, i + 1, sections)
          ELSE IF imageInfo.isImage
          THEN AnalyzeFrom(paragraphs, i + 1,
                 Append(sections, [type |-> "image", content |-> imageInfo.caption,
                                   position |-> position]))
          ELSE IF _isSubtitle(paragraph, sections)
          THEN AnalyzeFrom(paragraphs, i + 1,
                 Append(sections, [type |-> "subtitle", content |-> paragraph.text,
                                   position |-> position]))
          ELSE AnalyzeFrom(paragraphs, i + 1,
                 Append(sections, [type |-> "text", content |-> paragraph.text,
                                   position |-> position]))

\* variant: the loop starts at the first paragraph
_analyzeContentStructure_FromTitle(paragraphs) == AnalyzeFrom(paragraphs, 1, <<>>)

\* the loop starts at the second paragraph: the first is the title
_analyzeContentStructure(paragraphs) == AnalyzeFrom(paragraphs, 2, <<>>)

\* DocumentParser.parseDocument on the lines mammoth extracted
parseDocument(lines) ==
  LET paragraphs == SelectSeq(lines, LAMBDA l : l # BlankLine)
      title == IF Len(paragraphs) > 0 THEN paragraphs[1].text ELSE ""
  IN [jstype |-> "object", hasSections |-> TRUE, title |-> title,
      sections |-> _analyzeContentStructure(paragraphs)]

(***************************************************************************)
(* Markup.  The HTML a render returns is the sequence of the blocks that  *)
(* were appended to it; a block is named after what was appended and      *)
(* carries the values interpolated into it.                               *)
(***************************************************************************)
\* what a caption slot shows: the caption, or a circled digit and a label
NoCaption == [text |-> "", number |-> 0]
Caption(text) == [text |-> text, number |-> 0]
PlaceholderCaption(number) == [text |-> "图注", number |-> number]

\* String.fromCharCode(0x2460 + offset): the character with that code, which
\* is 9312 + offset
CircledDigit(offset) == 9312 + offset

\* the code of the character that is the number n in a circle: U+2460 to
\* U+2473 are the numbers 1 to 20, U+3251 to U+325F the numbers 21 to 35
CircledNumber(n) == IF n <= 20 THEN 9311 + n ELSE 12860 + n

Markup(kind, text) ==
  [kind |-> kind, text |-> text, imageSrc1 |-> 0, imageSrc2 |-> 0,
   displayCaption1 |-> NoCaption, displayCaption2 |-> NoCaption]

_getHeaderImageBlock == Markup("header-image", "")
_getFooterBlock == Markup("footer", "")

_getTitleBlock(title, templateId) ==
  IF templateId = "creative" THEN Markup("creative-title", title)
  ELSE Markup("title", title)

_getTextBlock(content) == Markup("text", content)
_getCreativeTextBlock(content) == Markup("creative-text", content)
_getSubtitleBlock(content) == Markup("subtitle", content)
_getCreativeSubtitleBlock(content) == Markup("creative-subtitle", content)
_getSingleImageBlock == Markup("single-image", "")
_getCreativeSingleImageBlock == Markup("creative-single-image", "")
_getDoubleImageNoCaptionBlock == Markup("double-image-no-caption", "")
_getCreativeDoubleImageNoCaptionBlock ==
  Markup("creative-double-image-no-caption", "")

\* variant: the captions are shown as they are, empty or not
ImageWithCaption_NoPlaceholder(kind, startIndex, caption1, caption2) ==
  [kind |-> kind, text |-> "",
   imageSrc1 |-> (startIndex - 1) % 2, imageSrc2 |-> startIndex % 2,
   displayCaption1 |-> Caption(caption1), displayCaption2 |-> Caption(caption2)]

\* the two-image block: imageSources has two entries, numbered 0 and 1
ImageWithCaption(kind, startIndex, caption1, caption2) ==
  LET captionNumber1 == CircledDigit(startIndex - 1)
      captionNumber2 == CircledDigit(startIndex % 2)
  IN [kind |-> kind, text |-> "",
      imageSrc1 |-> (startIndex - 1) % 2, imageSrc2 |-> startIndex % 2,
      displayCaption1 |-> IF caption1 # "" THEN Caption(caption1)
                          ELSE PlaceholderCaption(captionNumber1),
      displayCaption2 |-> IF caption2 # "" THEN Caption(caption2)
                          ELSE PlaceholderCaption(captionNumber2)]

_getImageWithCaptionBlock(startIndex, caption1, caption2) ==
  ImageWithCaption("image-with-caption", startIndex, caption1, caption2)

_getCreativeImageWithCaptionBlock(startIndex, caption1, caption2) ==
  ImageWithCaption("creative-image-with-caption", startIndex, caption1, caption2)

\* sections.filter(section => section.type === 'image').map(section => section.content)
RECURSIVE ImageCaptions(_)
ImageCaptions(sections) ==
  IF sections = <<>> THEN <<>>
  ELSE IF Head(sections).type = "image"
  THEN <<Head(sections).content>> \o ImageCaptions(Tail(sections))
  ELSE ImageCaptions(Tail(sections))

\* the locals of _processContentSections
Locals(html, imageIndex, captionIndex) ==
  [html |-> html, imageIndex |-> imageIndex, captionIndex |-> captionIndex]

\* variant: the caption is read and captionIndex is left where it was
TakeCaption_NoIncrement(imageCaptions, captionIndex) ==
  [caption |-> IF captionIndex < Len(imageCaptions)
               THEN imageCaptions[captionIndex + 1] ELSE "",
   captionIndex |-> captionIndex]

\* variant: captionIndex stops at the number of captions
TakeCaption_StopsAtEnd(imageCaptions, captionIndex) ==
  [caption |-> IF captionIndex < Len(imageCaptions)
               THEN imageCaptions[captionIndex + 1] ELSE "",
   captionIndex |-> IF captionIndex < Len(imageCaptions)
                    THEN captionIndex + 1 ELSE captionIndex]

\* captionIndex < imageCaptions.length ? imageCaptions[captionIndex] : '',
\* followed by captionIndex++ (imageCaptions[0] is the first caption)
TakeCaption(imageCaptions, captionIndex) ==
  [caption |-> IF captionIndex < Len(imageCaptions)
               THEN imageCaptions[captionIndex + 1] ELSE "",
   captionIndex |-> captionIndex + 1]

\* variant: imageIndex advances as it does for the two-image block with captions
FixedImageBlock_AdvancesIndex(v, block) ==
  Locals(Append(v.html, block), v.imageIndex + 2, v.captionIndex)

\* html += a block without captions; imageIndex and captionIndex are not touched
FixedImageBlock(v, block) ==
  Locals(Append(v.html, block), v.imageIndex, v.captionIndex)

\* one turn of sections.forEach
ProcessSection(section, imageCaptions, template, templateId, v) ==
  IF section.type = "text"
  THEN Locals(Append(v.html, IF templateId = "creative"
                             THEN _getCreativeTextBlock(section.content)
                             ELSE _getTextBlock(section.content)),
              v.imageIndex, v.captionIndex)
  ELSE IF section.type = "subtitle"
  THEN Locals(Append(v.html, IF templateId = "creative"
                             THEN _getCreativeSubtitleBlock(section.content)
                             ELSE _getSubtitleBlock(section.content)),
              v.imageIndex, v.captionIndex)
  ELSE IF section.type = "image"
  THEN IF template = "double-image-with-caption"
       THEN LET first == TakeCaption(imageCaptions, v.captionIndex)
                second == TakeCaption(imageCaptions, first.captionIndex)
                caption1 == first.caption
                caption2 == second.caption
            IN Locals(Append(v.html,
                        IF templateId = "creative"
                        THEN _getCreativeImageWithCaptionBlock(v.imageIndex,
                                                               caption1, caption2)
                        ELSE _getImageWithCaptionBlock(v.imageIndex,
                                                       caption1, caption2)),
                      v.imageIndex + 2, second.captionIndex)
       ELSE IF template = "double-image-no-caption"
       THEN FixedImageBlock(v, IF templateId = "creative"
                               THEN _getCreativeDoubleImageNoCaptionBlock
                               ELSE _getDoubleImageNoCaptionBlock)
       ELSE FixedImageBlock(v, IF templateId = "creative"
                               THEN _getCreativeSingleImageBlock
                               ELSE _getSingleImageBlock)
  ELSE v

RECURSIVE ProcessFrom(_, _, _, _, _)
ProcessFrom(sections, template, templateId, i, v) ==
  IF i > Len(sections) THEN v
  ELSE ProcessFrom(sections, template, templateId, i + 1,
                   ProcessSection(sections[i], ImageCaptions(sections),
                                  template, templateId, v))

\* variant: imageIndex and captionIndex are kept from one render to the next
_processContentSections_KeepsCounters(sections, template, templateId) ==
  ProcessFrom(sections, template, templateId, 1,
              Locals(<<>>, IF last.imageIndex > 0 THEN last.imageIndex ELSE 1,
                     last.captionIndex))

\* the markup of the sections, and imageIndex and captionIndex at the end
_processContentSections(sections, template, templateId) ==
  ProcessFrom(sections, template, templateId, 1, Locals(<<>>, 1, 0))

OpenContainer(templateId) ==
  IF templateId = "creative" THEN Markup("open-container", "#f2f0ed")
  ELSE Markup("open-container", "#f5f7fa")

Divider == Markup("divider", "")
CloseContainer == Markup("close-container", "")

\* variant: the divider is appended before the title
_generateHTML_DividerFirst(content, template, templateId) ==
  LET body == _processContentSections(content.sections, template, templateId)
  IN Locals(<<_getHeaderImageBlock, OpenContainer(templateId), Divider>>
              \o (IF content.title # ""
                  THEN <<_getTitleBlock(content.title, templateId)>> ELSE <<>>)
              \o body.html
              \o <<CloseContainer, _getFooterBlock>>,
            body.imageIndex, body.captionIndex)

_generateHTML(content, template, templateId) ==
  LET body == _processContentSections(content.sections, template, templateId)
  IN Locals(<<_getHeaderImageBlock, OpenContainer(templateId)>>
              \o (IF content.title # ""
                  THEN <<_getTitleBlock(content.title, templateId)>> ELSE <<>>)
              \o <<Divider>> \o body.html
              \o <<CloseContainer, _getFooterBlock>>,
            body.imageIndex, body.captionIndex)

\* TemplateEngine.applyTemplate: the error thrown ("" when it returns), the
\* image count, the template type the chosen template selects and the
\* markup returned
applyTemplate(content, templateId) ==
  LET template == IF templateId # "" THEN getTemplateById(templateId)
                  ELSE getDefaultTemplate
      imageCount == ImageCount(content.sections)
  IN IF ~content.hasSections \/ ~Truthy(template)
        \/ ~IsFunction(template.selectTemplate)
     THEN [err |-> "ApplyFailed", imageCount |-> 0, templateType |-> "",
           html |-> <<>>, imageIndex |-> 0, captionIndex |-> 0]
     ELSE LET templateType == CallSelect(template.selectTemplate, imageCount)
              out == _generateHTML(content, templateType, template.id)
          IN [err |-> "", imageCount |-> imageCount,
              templateType |-> templateType, html |-> out.html,
              imageIndex |-> out.imageIndex, captionIndex |-> out.captionIndex]

\* variant: the spread alone, the supplied position and manualEdit kept
MarkManual_KeepsSupplied(sections) ==
  [i \in DOMAIN sections |->
     Section(sections[i].type, sections[i].content, sections[i].position,
             sections[i].manualEdit)]

\* content.sections.map((section, index) => ({...section, position, manualEdit}))
MarkManual(sections) ==
  [i \in DOMAIN sections |->
     Section(sections[i].type, sections[i].content, i, TRUE)]

(***************************************************************************)
(* Inputs.                                                                 *)
(***************************************************************************)
\* a function supplied by a caller of addTemplate
UserFn == Fn("user", 0, 0)

\* "" stands for an absent / empty id
IdInputs == BuiltInIds \cup {"my", "7", "10"} \cup InheritedKeys \cup {""}

\* objects handed to addTemplate
TemplateInputs ==
  {Null} \cup
  {Template(id, name, "", f) :
     id \in {"7", "10"} \cup InheritedKeys \cup {""}, name \in {"", "n"},
     f \in {UndefinedFn, NotAFunction, UserFn}}

Thresholds == 1..MaxThreshold

NoRules ==
  [present |-> FALSE, minImagesForDoubleNoCaption |-> 0,
   minImagesForDoubleWithCaption |-> 0]

Rules(a, b) ==
  [present |-> TRUE, minImagesForDoubleNoCaption |-> a,
   minImagesForDoubleWithCaption |-> b]

Config(id, name, description, baseTemplate, imageRules) ==
  [id |-> id, name |-> name, description |-> description,
   baseTemplate |-> baseTemplate, imageRules |-> imageRules]

NoConfig == Config("", "", "", "", NoRules)

\* templateConfig objects handed to createCustomTemplate
ConfigInputs ==
  {Config("my", "n", "", b, NoRules) : b \in {"", "simple", "constructor", "7"}}
  \cup {Config("my", "n", "d", "", Rules(a, b)) :
          a \in Thresholds, b \in Thresholds}
  \cup {Config(id, name, "d", "", NoRules) :
          id \in {"my", "constructor", ""}, name \in {"", "n"}}

\* section objects of a manual-content request
SectionInputs ==
  {Section("text", "t", 0, FALSE), Section("image", "c", 5, FALSE)}

RECURSIVE SeqsUpTo(_, _)
SeqsUpTo(S, n) ==
  IF n = 0 THEN {<<>>}
  ELSE LET shorter == SeqsUpTo(S, n - 1)
       IN shorter \cup {Append(q, x) : q \in {r \in shorter : Len(r) = n - 1}, x \in S}

ContentInputs ==
  {NoContent, ContentWithoutSections}
  \cup {Content("title", q) : q \in SeqsUpTo(SectionInputs, MaxSections)}

\* paragraphs: "[图片]", "核心提示：" and "我们在操场上开展了丰富多彩的游戏。"
ParagraphInputs ==
  {Paragraph("marker", 4, {"hasImageMarker", "hasTuWord"}),
   Paragraph("hint:", 5, {"endsWithSubtitleEnding", "endsWithColon"}),
   Paragraph("body.", 17, {"startsWithBodyWord", "endsWithBodyPunctuation"})}

\* the body of a parse request: no document, not an array, an empty array,
\* bytes mammoth rejects, or a .docx whose raw text has these lines
Document(kind, lines) == [kind |-> kind, lines |-> lines]

DocumentInputs ==
  {Document(k, <<>>) : k \in {"missing", "notArray", "emptyArray", "unreadable"}}
  \cup {Document("docx", q) :
          q \in SeqsUpTo(ParagraphInputs \cup {BlankLine}, MaxParagraphs)}

\* the template field of a render request; "" when the field is absent
TemplateIdInputs == BuiltInIds \cup {"my", "7", "10"} \cup InheritedKeys \cup {""}

\* the template field of the parse requests
ParseTemplateIdInputs == {"", "simple", "7"}

\* paragraphs handed to the classifier: "[图片]", "核心提示：", "快乐每一天",
\* "1、活动介绍", "我们出发", "天气真好。" and
\* "孩子们在老师的带领下走进了美丽的校园参观各个功能室"
ClassifierParagraphInputs ==
  {Paragraph("marker", 4, {"hasImageMarker", "hasTuWord"}),
   Paragraph("hint:", 5, {"endsWithSubtitleEnding", "endsWithColon"}),
   Paragraph("plain", 5, {}),
   Paragraph("numbered", 6,
             {"isImageCaptionFormat", "hasChapterIndicator", "hasSubtitleKeyword"}),
   Paragraph("we go", 4, {"startsWithBodyWord"}),
   Paragraph("fine.", 5, {"endsWithBodyPunctuation"}),
   Paragraph("long", 25, {})}

\* the buffer handed to parseDocument: bytes mammoth rejects, or a .docx
\* whose raw text has these lines
ClassifierDocumentInputs ==
  {Document("unreadable", <<>>)}
  \cup {Document("docx", q) :
          q \in SeqsUpTo(ClassifierParagraphInputs \cup {BlankLine}, MaxLines)}

\* captions of the image sections of a document, by rank
CaptionNames == <<"c1", "c2", "c3", "c4", "c5", "c6", "c7">>

\* the sections of a document whose section types are given: the k-th image
\* section carries the k-th caption, or no caption at all
Captioned(types, withCaptions) ==
  [i \in DOMAIN types |->
     Section(types[i],
             IF types[i] = "image"
             THEN IF withCaptions
                  THEN CaptionNames[Cardinality({j \in 1..i : types[j] = "image"})]
                  ELSE ""
             ELSE IF types[i] = "subtitle" THEN "s"
             ELSE IF types[i] = "text" THEN "t" ELSE "v",
             i, FALSE)]

\* documents handed to applyTemplate
RenderContentInputs ==
  {Content("title", Captioned(q, TRUE)) :
     q \in SeqsUpTo({"text", "image"}, MaxRenderSections)}
  \cup {Content(title, Captioned(q, TRUE)) :
          title \in {"", "title"}, q \in SeqsUpTo({"text", "subtitle", "image"}, 2)}
  \cup {Content("title", Captioned(q, FALSE)) :
          q \in SeqsUpTo({"image"}, MaxImages)}
  \cup {Content("title", Captioned(q, TRUE)) :
          q \in SeqsUpTo({"text", "image", "video"}, 3)}

\* the templateId argument of applyTemplate; "" when it is left out
RenderTemplateIdInputs == {"", "education", "creative", "7"}

\* the documents and template ids of renders that are repeated
RepeatContentInputs ==
  {Content("title", Captioned(q, TRUE)) :
     q \in SeqsUpTo({"text", "image"}, MaxRepeatSections)}

RepeatTemplateIdInputs == {"", "education"}

\* the parse requests that are in flight together with other requests: no
\* document, bytes mammoth rejects, or a .docx of a title and an image line
ConcurrentDocumentInputs ==
  {Document("missing", <<>>), Document("unreadable", <<>>),
   Document("docx", <<Paragraph("hint:", 5, {"endsWithSubtitleEnding", "endsWithColon"}),
                      Paragraph("marker", 4, {"hasImageMarker", "hasTuWord"})>>)}

ConcurrentTemplateIdInputs == {"", "my"}

\* a parse request whose handler is suspended at await
Request(document, template) == [document |-> document, template |-> template]

\* texts with a leading enumerator or numeral: "1、春游", "12.春游",
\* "3个小朋友", "十年树木" and "第十届运动会"
EnumeratorTexts ==
  {[text |-> "n-sep", chars |-> <<"digit", "dunhao", "other", "other">>],
   [text |-> "nn-dot", chars |-> <<"digit", "digit", "dot", "other", "other">>],
   [text |-> "n-word", chars |-> <<"digit", "other", "other", "other", "other">>],
   [text |-> "numeral", chars |-> <<"numeral", "other", "other", "other">>],
   [text |-> "di-numeral",
    chars |-> <<"di", "numeral", "other", "other", "other", "other">>]}

EnumeratorParagraphInputs ==
  {Paragraph(t.text, Len(t.chars), EnumeratorTests(t.chars)) : t \in EnumeratorTexts}

EnumeratorDocumentInputs ==
  {Document("docx", q) :
     q \in SeqsUpTo(EnumeratorParagraphInputs \cup {BlankLine}, MaxLines)}

(***************************************************************************)
(* The record of the last call: what was called, with what, and how it    *)
(* ended.  status is the HTTP status of a route (0 for a direct call).    *)
(***************************************************************************)
Call(op, id, template, config, err, status) ==
  [op |-> op, id |-> id, template |-> template, config |-> config,
   err |-> err, status |-> status, imageCount |-> 0, templateType |-> "",
   sections |-> <<>>, lines |-> <<>>, title |-> "", content |-> NoContent,
   html |-> <<>>, captionIndex |-> 0, imageIndex |-> 0]

\* a route that parsed and rendered a document
Rendered(op, id, err, status, imageCount, templateType, sections) ==
  [op |-> op, id |-> id, template |-> Null, config |-> NoConfig,
   err |-> err, status |-> status, imageCount |-> imageCount,
   templateType |-> templateType, sections |-> sections, lines |-> <<>>,
   title |-> "", content |-> NoContent, html |-> <<>>, captionIndex |-> 0,
   imageIndex |-> 0]

\* a direct call of parseDocument: the lines read and the content returned
Parsed(lines, err, content) ==
  [Call("parseDocument", "", Null, NoConfig, err, 0) EXCEPT
     !.lines = lines, !.title = content.title, !.sections = content.sections]

\* a direct call of applyTemplate: the document, the markup returned and the
\* values of imageIndex and captionIndex when the sections were processed
Applied(content, templateId, out) ==
  [Call("applyTemplate", templateId, Null, NoConfig, out.err, 0) EXCEPT
     !.content = content, !.imageCount = out.imageCount,
     !.templateType = out.templateType, !.html = out.html,
     !.imageIndex = out.imageIndex, !.captionIndex = out.captionIndex]

Commit(out) ==
  /\ templates' = out.templates
  /\ order' = out.order
  /\ defaultTemplate' = out.defaultTemplate

Init ==
  /\ templates = InitialTemplates
  /\ order = InitialOrder
  /\ defaultTemplate = "business"
  /\ last = Call("constructor", "", Null, NoConfig, "", 0)
  /\ inflight = {}
  /\ memo = last

(***************************************************************************)
(* Direct calls of the repository.                                         *)
(***************************************************************************)
SetDefaultTemplate ==
  \E templateId \in IdInputs :
    LET out == setDefaultTemplate(templateId) IN
      /\ Commit(out)
      /\ Quiet /\ last' = Call("setDefaultTemplate", templateId, Null, NoConfig, out.err, 0)

AddTemplate ==
  \E template \in TemplateInputs :
    LET out == addTemplate(template) IN
      /\ Commit(out)
      /\ Quiet /\ last' = Call("addTemplate", template.id, template, NoConfig, out.err, 0)

RemoveTemplate ==
  \E templateId \in IdInputs :
    LET out == removeTemplate(templateId) IN
      /\ Commit(out)
      /\ Quiet /\ last' = Call("removeTemplate", templateId, Null, NoConfig, out.err, 0)

CreateCustomTemplate ==
  \E templateConfig \in ConfigInputs :
    LET out == createCustomTemplate(templateConfig) IN
      /\ Commit(out)
      /\ Quiet /\ last' = Call("createCustomTemplate", templateConfig.id, Null,
                      templateConfig, out.err, 0)

(***************************************************************************)
(* Routes.                                                                 *)
(***************************************************************************)
\* POST /templates/create-custom
RouteCreateCustom ==
  \/ /\ UNCHANGED <<templates, order, defaultTemplate>>
     /\ Quiet /\ last' = Call("POST /templates/create-custom", "", Null, NoConfig,
                     "MissingConfig", 400)
  \/ \E templateConfig \in ConfigInputs :
       LET out == createCustomTemplate(templateConfig) IN
         /\ Commit(out)
         /\ Quiet /\ last' = Call("POST /templates/create-custom", templateConfig.id,
                         Null, templateConfig, out.err,
                         IF out.err = "" THEN 200 ELSE 500)

\* the delete route without its test for the built-in ids
RouteDeleteTemplate_NoBuiltInTest ==
  \E templateId \in IdInputs :
    LET out == removeTemplate(templateId) IN
      IF templateId = ""
      THEN /\ UNCHANGED <<templates, order, defaultTemplate>>
           /\ Quiet /\ last' = Call("DELETE /templates", templateId, Null, NoConfig,
                           "MissingId", 400)
      ELSE /\ Commit(out)
           /\ Quiet /\ last' = Call("DELETE /templates", templateId, Null, NoConfig,
                           out.err, IF out.err = "" THEN 200 ELSE 500)

\* DELETE /templates/:templateId
RouteDeleteTemplate ==
  \E templateId \in IdInputs :
    LET builtInTemplates == {"business", "simple", "education", "creative"}
        out == removeTemplate(templateId)
    IN IF templateId = ""
       THEN /\ UNCHANGED <<templates, order, defaultTemplate>>
            /\ Quiet /\ last' = Call("DELETE /templates", templateId, Null, NoConfig,
                            "MissingId", 400)
       ELSE IF templateId \in builtInTemplates
       THEN /\ UNCHANGED <<templates, order, defaultTemplate>>
            /\ Quiet /\ last' = Call("DELETE /templates", templateId, Null, NoConfig,
                            "BuiltIn", 403)
       ELSE /\ Commit(out)
            /\ Quiet /\ last' = Call("DELETE /templates", templateId, Null, NoConfig,
                            out.err, IF out.err = "" THEN 200 ELSE 500)

\* POST /set-default-template
RouteSetDefaultTemplate ==
  \E templateId \in IdInputs :
    LET out == setDefaultTemplate(templateId) IN
      IF templateId = ""
      THEN /\ UNCHANGED <<templates, order, defaultTemplate>>
           /\ Quiet /\ last' = Call("POST /set-default-template", templateId, Null,
                           NoConfig, "MissingId", 400)
      ELSE IF ~Truthy(getTemplateById(templateId))
      THEN /\ UNCHANGED <<templates, order, defaultTemplate>>
           /\ Quiet /\ last' = Call("POST /set-default-template", templateId, Null,
                           NoConfig, "NotFound", 404)
      ELSE /\ Commit(out)
           /\ Quiet /\ last' = Call("POST /set-default-template", templateId, Null,
                           NoConfig, out.err, IF out.err = "" THEN 200 ELSE 500)

\* POST /manual-content
RouteManualContent ==
  \E content \in ContentInputs, template \in TemplateIdInputs :
    /\ UNCHANGED <<templates, order, defaultTemplate>>
    /\ IF ~Truthy(content)
       THEN Quiet /\ last' = Rendered("POST /manual-content", template, "MissingContent",
                             400, 0, "", <<>>)
       ELSE IF ~content.hasSections
       THEN Quiet /\ last' = Rendered("POST /manual-content", template, "TypeError",
                             500, 0, "", <<>>)
       ELSE LET manualContent == Content(content.title, MarkManual(content.sections))
                out == applyTemplate(manualContent, template)
            IN IF out.err # ""
               THEN Quiet /\ last' = Rendered("POST /manual-content", template, out.err,
                                     500, 0, "", <<>>)
               ELSE Quiet /\ last' = Rendered("POST /manual-content", template, "", 200,
                                     out.imageCount, out.templateType,
                                     manualContent.sections)

\* POST /parse-document
RouteParseDocument ==
  \E document \in DocumentInputs, template \in ParseTemplateIdInputs :
    /\ UNCHANGED <<templates, order, defaultTemplate>>
    /\ IF document.kind \in {"missing", "notArray", "emptyArray"}
       THEN Quiet /\ last' = Rendered("POST /parse-document", template, "BadDocument",
                             400, 0, "", <<>>)
       ELSE IF document.kind = "unreadable"
       THEN Quiet /\ last' = Rendered("POST /parse-document", template, "ParseFailed",
                             500, 0, "", <<>>)
       ELSE LET parsedContent == parseDocument(document.lines)
                out == applyTemplate(parsedContent, template)
            IN IF out.err # ""
               THEN Quiet /\ last' = Rendered("POST /parse-document", template, out.err,
                                     500, 0, "", <<>>)
               ELSE Quiet /\ last' = Rendered("POST /parse-document", template, "", 200,
                                     out.imageCount, out.templateType,
                                     parsedContent.sections)

(***************************************************************************)
(* Direct calls of the parser.                                             *)
(***************************************************************************)
ParseDocumentOf(documents) ==
  \E document \in documents :
    /\ UNCHANGED <<templates, order, defaultTemplate>>
    /\ Quiet
    /\ IF document.kind = "unreadable"
       THEN last' = Parsed(<<>>, "ParseFailed", NoContent)
       ELSE last' = Parsed(document.lines, "", parseDocument(document.lines))

ParseDocument == ParseDocumentOf(ClassifierDocumentInputs)

ParseEnumerated == ParseDocumentOf(EnumeratorDocumentInputs)

(***************************************************************************)
(* Direct calls of the template engine.                                    *)
(***************************************************************************)
ApplyTemplateOf(contents, templateIds) ==
  \E content \in contents, templateId \in templateIds :
    /\ UNCHANGED <<templates, order, defaultTemplate>>
    /\ Quiet
    /\ last' = Applied(content, templateId, applyTemplate(content, templateId))

ApplyTemplate == ApplyTemplateOf(RenderContentInputs, RenderTemplateIdInputs)

ApplyTemplateAgain == ApplyTemplateOf(RepeatContentInputs, RepeatTemplateIdInputs)

\* the caller keeps what a render returned
Remember ==
  /\ last.op = "applyTemplate"
  /\ memo' = last
  /\ UNCHANGED <<templates, order, defaultTemplate, last, inflight>>

(***************************************************************************)
(* Requests in flight.  A handler runs to its end or to an await without  *)
(* any other handler running: the handlers of the registry routes have no *)
(* await, the parse route awaits the extraction of the document's text    *)
(* and goes on, in a later turn, with what the registry then holds.       *)
(***************************************************************************)
\* POST /parse-document up to await mammoth.extractRawText
ParseRequestStart ==
  \E document \in ConcurrentDocumentInputs, template \in ConcurrentTemplateIdInputs :
    /\ UNCHANGED <<templates, order, defaultTemplate, memo>>
    /\ IF document.kind \in {"missing", "notArray", "emptyArray"}
       THEN /\ inflight' = inflight
            /\ last' = Rendered("POST /parse-document", template, "BadDocument",
                                400, 0, "", <<>>)
       ELSE /\ Cardinality(inflight) < MaxInflight
            /\ Request(document, template) \notin inflight
            /\ inflight' = inflight \cup {Request(document, template)}
            /\ last' = last

\* POST /parse-document from the await on: classification, applyTemplate and
\* the response
ParseRequestFinish ==
  \E request \in inflight :
    /\ UNCHANGED <<templates, order, defaultTemplate, memo>>
    /\ inflight' = inflight \ {request}
    /\ IF request.document.kind = "unreadable"
       THEN last' = Rendered("POST /parse-document", request.template,
                             "ParseFailed", 500, 0, "", <<>>)
       ELSE LET parsedContent == parseDocument(request.document.lines)
                out == applyTemplate(parsedContent, request.template)
            IN IF out.err # ""
               THEN last' = Rendered("POST /parse-document", request.template,
                                     out.err, 500, 0, "", <<>>)
               ELSE last' = Rendered("POST /parse-document", request.template, "",
                                     200, out.imageCount, out.templateType,
                                     parsedContent.sections)

Next ==
  \/ SetDefaultTemplate
  \/ AddTemplate
  \/ RemoveTemplate
  \/ CreateCustomTemplate

Spec == Init /\ [][Next]_vars

NextTransport ==
  \/ RouteCreateCustom
  \/ RouteDeleteTemplate
  \/ RouteSetDefaultTemplate
  \/ RouteManualContent
  \/ RouteParseDocument

SpecTransport == Init /\ [][NextTransport]_vars

NextParse ==
  \/ ParseDocument

SpecParse == Init /\ [][NextParse]_vars

NextEnumerators ==
  \/ ParseEnumerated

SpecEnumerators == Init /\ [][NextEnumerators]_vars

NextRender ==
  \/ ApplyTemplate

SpecRender == Init /\ [][NextRender]_vars

NextRepeat ==
  \/ ApplyTemplateAgain
  \/ Remember

SpecRepeat == Init /\ [][NextRepeat]_vars

NextConcurrent ==
  \/ RouteCreateCustom
  \/ RouteDeleteTemplate
  \/ RouteSetDefaultTemplate
  \/ ParseRequestStart
  \/ ParseRequestFinish

SpecConcurrent == Init /\ [][NextConcurrent]_vars

(***************************************************************************)
(* Properties of the registry.                                             *)
(***************************************************************************)
RegistryUnchanged ==
  /\ templates' = templates
  /\ order' = order
  /\ defaultTemplate' = defaultTemplate

\* C1: after any sequence of registry operations the registry holds at
\* least one template and defaultTemplate is the id of a template in it.
C1_DefaultNamesATemplate ==
  /\ Cardinality(DOMAIN templates) >= 1
  /\ defaultTemplate \in DOMAIN templates

\* C2: removeTemplate called while the registry holds exactly one template
\* throws, and leaves templates and defaultTemplate as they were.
C2_RemoveOfLastTemplateFails ==
  [][(Cardinality(DOMAIN templates) = 1 /\ last'.op = "removeTemplate")
       => /\ last'.err \in {"MissingId", "NotFound", "LastTemplateRemaining"}
          /\ (last'.id \in DOMAIN templates => last'.err = "LastTemplateRemaining")
          /\ RegistryUnchanged]_vars

C2_Witness ==
  /\ last.op = "removeTemplate"
  /\ last.err = "LastTemplateRemaining"
  /\ DOMAIN templates = {last.id}

\* what a successful removeTemplate(id) does to the entries
RemovesExactly(id) ==
  /\ DOMAIN templates' = DOMAIN templates \ {id}
  /\ \A k \in DOMAIN templates' : templates'[k] = templates[k]

\* C3 as stated: a successful remove of the default makes the first remaining
\* id in insertion order the default; a successful remove of another id
\* leaves the default; exactly the entry id is deleted.  The constructor
\* inserts the built-in ids before any other id, so while a built-in id
\* remains the first remaining id in insertion order is order'[1].
C3_DefaultBecomesFirstInserted ==
  [][(last'.op = "removeTemplate" /\ last'.err = "")
       => /\ RemovesExactly(last'.id)
          /\ IF last'.id = defaultTemplate
             THEN /\ defaultTemplate' \in DOMAIN templates'
                  /\ (order' # <<>> /\ order'[1] \in BuiltInIds)
                       => defaultTemplate' = order'[1]
             ELSE defaultTemplate' = defaultTemplate]_vars

\* C3 amended: the new default is the first remaining id in the order in
\* which the object enumerates its keys: the least integer-like id if one
\* remains, otherwise the first remaining id in insertion order.
C3_DefaultBecomesFirstKey ==
  [][(last'.op = "removeTemplate" /\ last'.err = "")
       => /\ RemovesExactly(last'.id)
          /\ IF last'.id = defaultTemplate
             THEN LET ints == DOMAIN templates' \cap IntegerLikeIds IN
                    /\ defaultTemplate' \in DOMAIN templates'
                    /\ IF ints # {}
                       THEN /\ defaultTemplate' \in ints
                            /\ \A k \in ints :
                                 IntegerValue[defaultTemplate'] <= IntegerValue[k]
                       ELSE defaultTemplate' = order'[1]
             ELSE defaultTemplate' = defaultTemplate]_vars

C3_Witness ==
  /\ last.op = "removeTemplate"
  /\ last.err = ""
  /\ last.id \in BuiltInIds
  /\ defaultTemplate = "7"
  /\ "10" \in DOMAIN templates
  /\ order # <<>>

\* C4: the set-default request of an id that is not in the registry ends in
\* NotFound, the request of an id that is in it makes that id the default.
C4_SetDefaultFindsOrFails ==
  (last.op = "POST /set-default-template" /\ last.id # "")
    => IF last.id \in DOMAIN templates
       THEN last.err = "" /\ defaultTemplate = last.id
       ELSE last.err = "NotFound"

\* the errors the spec calls InvalidDefinition
InvalidDefinition == {"MissingProperties", "NotAFunction"}

Malformed(template) ==
  \/ template.id = ""
  \/ template.name = ""
  \/ template.selectTemplate = UndefinedFn
  \/ ~IsFunction(template.selectTemplate)

\* C6 as stated: addTemplate of such a definition throws InvalidDefinition
\* and adds nothing, also when its id is in the registry.
C6_MalformedIsInvalidDefinition ==
  [][(last'.op = "addTemplate" /\ Truthy(last'.template)
        /\ Malformed(last'.template))
       => last'.err \in InvalidDefinition /\ RegistryUnchanged]_vars

\* C6 amended: addTemplate of such a definition throws and adds nothing; the
\* error is InvalidDefinition, except that a definition with an id, a name
\* and a selectTemplate that is not a function throws the duplicate-id error
\* when the lookup of its id finds a value.
C6_MalformedIsRejected ==
  [][(last'.op = "addTemplate" /\ Truthy(last'.template)
        /\ Malformed(last'.template))
       => /\ RegistryUnchanged
          /\ IF /\ last'.template.id # ""
                /\ last'.template.name # ""
                /\ last'.template.selectTemplate = NotAFunction
                /\ last'.id \in DOMAIN templates \cup InheritedKeys
             THEN last'.err = "DuplicateId"
             ELSE last'.err \in InvalidDefinition]_vars

C6_Witness ==
  /\ last.op = "addTemplate"
  /\ last.template.selectTemplate = NotAFunction
  /\ last.id \in DOMAIN templates
  /\ last.err = "DuplicateId"

(***************************************************************************)
(* Properties of the routes.                                               *)
(***************************************************************************)
\* C7: after any sequence of requests the four built-in ids are in the
\* registry; a delete request of a built-in id is rejected before
\* removeTemplate is reached, and no delete request fails on the guard of
\* the last template.
C7_BuiltInsStay ==
  /\ BuiltInIds \subseteq DOMAIN templates
  /\ (last.op = "DELETE /templates" /\ last.id \in BuiltInIds)
       => last.status = 403 /\ last.err = "BuiltIn"
  /\ last.op = "DELETE /templates" => last.err # "LastTemplateRemaining"

C7_Witness ==
  /\ last.op = "DELETE /templates"
  /\ last.id \in BuiltInIds
  /\ last.status = 403
  /\ "my" \in DOMAIN templates

\* the table of the built-in templates
BuiltInVariant(id, n) ==
  CASE id \in {"business", "creative"} ->
         IF n = 0 THEN "single-image"
         ELSE IF n <= 2 THEN "double-image-with-caption"
         ELSE "double-image-no-caption"
    [] id = "simple" -> "single-image"
    [] id = "education" ->
         IF n <= 1 THEN "single-image" ELSE "double-image-with-caption"

RenderOps == {"POST /manual-content", "POST /parse-document"}

\* C8: a render with a built-in template selects the variant of the table
\* for the number of image sections of the document.
C8_BuiltInSelection ==
  (last.op \in RenderOps /\ last.status = 200 /\ last.id \in BuiltInIds)
    => /\ last.imageCount = ImageCount(last.sections)
       /\ last.templateType = BuiltInVariant(last.id, last.imageCount)

C8_Witness ==
  /\ last.op = "POST /manual-content"
  /\ last.status = 200
  /\ last.id = "business"
  /\ last.imageCount = 3
  /\ last.templateType = "double-image-no-caption"

(***************************************************************************)
(* Properties of custom templates.                                         *)
(***************************************************************************)
ImageCounts == 0..(MaxThreshold + 1)

\* C9: a template created with imageRules {a, b} selects the no-caption
\* layout from a images on, otherwise the with-caption layout from b images
\* on, otherwise the single image; with a <= b the with-caption layout is
\* never selected.
C9_CustomSelection ==
  (last.op = "createCustomTemplate" /\ last.err = ""
     /\ last.config.imageRules.present)
    => LET a == last.config.imageRules.minImagesForDoubleNoCaption
           b == last.config.imageRules.minImagesForDoubleWithCaption
           select(n) == CallSelect(templates[last.id].selectTemplate, n)
       IN /\ \A n \in ImageCounts :
               /\ n >= a => select(n) = "double-image-no-caption"
               /\ (n < a /\ n >= b) => select(n) = "double-image-with-caption"
               /\ (n < a /\ n < b) => select(n) = "single-image"
          /\ a <= b =>
               \A n \in ImageCounts : select(n) # "double-image-with-caption"

C9_Witness ==
  /\ last.op = "createCustomTemplate"
  /\ last.err = ""
  /\ last.config.imageRules.minImagesForDoubleNoCaption = 2
  /\ last.config.imageRules.minImagesForDoubleWithCaption = 1
  /\ CallSelect(templates[last.id].selectTemplate, 1) = "double-image-with-caption"

\* C10: a template created without imageRules takes the selectTemplate of
\* the base template when baseTemplate names a template of the registry and
\* that of the default template otherwise; no later setDefaultTemplate or
\* removeTemplate changes the selectTemplate of a template that stays.
C10_InheritedSelection ==
  [][/\ (last'.op = "createCustomTemplate" /\ last'.err = ""
           /\ ~last'.config.imageRules.present)
          => templates'[last'.id].selectTemplate =
               IF last'.config.baseTemplate \in DOMAIN templates
               THEN templates[last'.config.baseTemplate].selectTemplate
               ELSE templates[defaultTemplate].selectTemplate
     /\ last'.op \in {"setDefaultTemplate", "removeTemplate"}
          => \A id \in DOMAIN templates \cap DOMAIN templates' :
               templates'[id].selectTemplate = templates[id].selectTemplate]_vars

C10_Witness ==
  /\ last.op = "createCustomTemplate"
  /\ last.err = ""
  /\ last.config.baseTemplate = "simple"
  /\ defaultTemplate # "simple"
  /\ templates[last.id].selectTemplate = SimpleFn

(***************************************************************************)
(* Properties of the classifier.                                           *)
(***************************************************************************)
\* the paragraphs of a document: its lines that are not blank
NonBlank(lines) == SelectSeq(lines, LAMBDA l : l # BlankLine)

ParsedOk == last.op = "parseDocument" /\ last.err = ""

\* the paragraph the i-th section was made from: the first is the title
ParagraphOf(i) == NonBlank(last.lines)[i + 1]

\* C11: the classifier emits exactly one section per paragraph after the
\* title, in the paragraphs' order: the i-th section has the text of the
\* i-th such paragraph as its content, and its type is text, subtitle or
\* image.
C11_OneSectionPerParagraph ==
  ParsedOk =>
    LET paragraphs == NonBlank(last.lines)
        n == IF Len(paragraphs) = 0 THEN 0 ELSE Len(paragraphs) - 1
    IN /\ Len(last.sections) = n
       /\ \A i \in 1..n :
            /\ last.sections[i].content = paragraphs[i + 1].text
            /\ last.sections[i].type \in {"text", "subtitle", "image"}

C11_Witness ==
  /\ ParsedOk
  /\ Len(last.lines) = 3
  /\ Len(last.sections) = 2
  /\ last.sections[1].type = "image"
  /\ last.sections[2].type = "text"
  /\ last.sections[1].content # last.sections[2].content

ImageRules ==
  {{"hasImageMarker"}, {"hasTuWord", "matchesNumberPattern"}, {"isImageOnly"},
   {"hasImageCaptionKeyword"}, {"isImageCaptionFormat"},
   {"matchesImageDescription"}, {"startsWithTu"},
   {"hasTuWord", "tuCaptionPattern"}}

MatchesImageRule(paragraph) ==
  \E rule \in ImageRules : rule \subseteq paragraph.matches

\* the tests of the subtitle heuristic that look at the paragraph alone
SubtitleIndicators ==
  {"hasSubtitleKeyword", "matchesSpecialPattern", "endsWithSubtitleEnding",
   "endsWithColon", "hasChapterIndicator"}

\* C13: a paragraph that passes at least one image rule becomes an image
\* section even when it also passes the subtitle heuristic; the subtitle
\* heuristic decides only the paragraphs that pass no image rule.
C13_ImageRulesFirst ==
  ParsedOk =>
    \A i \in DOMAIN last.sections :
      IF MatchesImageRule(ParagraphOf(i))
      THEN last.sections[i].type = "image"
      ELSE last.sections[i].type =
             IF _isSubtitle(ParagraphOf(i), SubSeq(last.sections, 1, i - 1))
             THEN "subtitle" ELSE "text"

C13_Witness ==
  /\ ParsedOk
  /\ \E i \in DOMAIN last.sections :
       /\ last.sections[i].type = "image"
       /\ ParagraphOf(i).matches \cap SubtitleIndicators # {}
       /\ _isSubtitle(ParagraphOf(i), SubSeq(last.sections, 1, i - 1))

\* a paragraph the context rule is about: no image rule, at most 20
\* characters, no body-opening word at its start, no sentence punctuation
\* at its end
ListItemCandidate(paragraph) ==
  /\ ~MatchesImageRule(paragraph)
  /\ paragraph.length <= 20
  /\ "startsWithBodyWord" \notin paragraph.matches
  /\ "endsWithBodyPunctuation" \notin paragraph.matches

\* C14: such a paragraph becomes a subtitle when the section emitted just
\* before it is a subtitle, even with no keyword, pattern, ending or chapter
\* indicator of its own; with none of these it becomes text when the
\* section before it is text or image, or when it is the first paragraph.
C14_ContextRule ==
  ParsedOk =>
    \A i \in DOMAIN last.sections :
      ListItemCandidate(ParagraphOf(i)) =>
        IF i > 1 /\ last.sections[i - 1].type = "subtitle"
        THEN last.sections[i].type = "subtitle"
        ELSE ParagraphOf(i).matches \cap SubtitleIndicators = {}
               => last.sections[i].type = "text"

C14_Witness ==
  /\ ParsedOk
  /\ Len(last.sections) = 2
  /\ last.sections[1].type = "subtitle"
  /\ last.sections[2].type = "subtitle"
  /\ ListItemCandidate(ParagraphOf(2))
  /\ ParagraphOf(2).matches = {}

(***************************************************************************)
(* Properties of the markup.                                               *)
(***************************************************************************)
AppliedOk == last.op = "applyTemplate" /\ last.err = ""

\* the two-image blocks of the markup, in order
CaptionBlocks(html) ==
  SelectSeq(html, LAMBDA b : b.kind \in {"image-with-caption",
                                         "creative-image-with-caption"})

\* the slots of the two-image blocks that show the caption c
SlotsShowing(blocks, c) ==
  {<<k, 1>> : k \in {j \in DOMAIN blocks : blocks[j].displayCaption1 = Caption(c)}}
  \cup {<<k, 2>> : k \in {j \in DOMAIN blocks : blocks[j].displayCaption2 = Caption(c)}}

\* C15: under double-image-with-caption the captions c1..cn of the image
\* sections are used in order, two for each two-image block: the k-th block
\* shows c[2k-1] in its first slot and c[2k] in its second, and no caption
\* is shown in more than one slot; four image sections give the pairs
\* (c1, c2) and (c3, c4).
C15_CaptionsInPairs ==
  (AppliedOk /\ last.templateType = "double-image-with-caption") =>
    LET c == ImageCaptions(last.content.sections)
        blocks == CaptionBlocks(last.html)
    IN /\ \A k \in DOMAIN blocks :
            /\ (2 * k - 1 <= Len(c) /\ c[2 * k - 1] # "")
                 => blocks[k].displayCaption1 = Caption(c[2 * k - 1])
            /\ (2 * k <= Len(c) /\ c[2 * k] # "")
                 => blocks[k].displayCaption2 = Caption(c[2 * k])
       /\ \A j \in DOMAIN c :
            c[j] # "" => Cardinality(SlotsShowing(blocks, c[j])) = 1

C15_Witness ==
  /\ AppliedOk
  /\ last.templateType = "double-image-with-caption"
  /\ Len(last.content.sections) = 5
  /\ ImageCaptions(last.content.sections) = <<"c1", "c2", "c3", "c4">>
  /\ CaptionBlocks(last.html)[1].displayCaption1 = Caption("c1")
  /\ CaptionBlocks(last.html)[1].displayCaption2 = Caption("c2")
  /\ CaptionBlocks(last.html)[2].displayCaption1 = Caption("c3")
  /\ CaptionBlocks(last.html)[2].displayCaption2 = Caption("c4")

OneImageWithCaption ==
  /\ AppliedOk
  /\ last.templateType = "double-image-with-caption"
  /\ last.imageCount = 1

\* C16: with exactly one image section under double-image-with-caption,
\* both caption slots of the block show synthesized placeholders, a circled
\* digit and a label.
C16_BothSlotsPlaceholders ==
  OneImageWithCaption =>
    /\ CaptionBlocks(last.html)[1].displayCaption1 = PlaceholderCaption(CircledNumber(1))
    /\ CaptionBlocks(last.html)[1].displayCaption2 = PlaceholderCaption(CircledNumber(2))

\* C16 as the code has it: the second slot shows the placeholder with the
\* circled digit 2; the first slot shows the image section's own caption,
\* and the placeholder with the circled digit 1 only when that caption is
\* empty.
C16_SecondSlotPlaceholder ==
  OneImageWithCaption =>
    LET c == ImageCaptions(last.content.sections)
        block == CaptionBlocks(last.html)[1]
    IN /\ Len(CaptionBlocks(last.html)) = 1
       /\ block.displayCaption2 = PlaceholderCaption(CircledNumber(2))
       /\ block.displayCaption1 =
            IF c[1] # "" THEN Caption(c[1]) ELSE PlaceholderCaption(CircledNumber(1))

C16_Witness ==
  /\ OneImageWithCaption
  /\ ImageCaptions(last.content.sections) = <<"c1">>
  /\ CaptionBlocks(last.html)[1].displayCaption1 = Caption("c1")
  /\ CaptionBlocks(last.html)[1].displayCaption2 = PlaceholderCaption(CircledNumber(2))
  /\ last.captionIndex = 2

ImageBlockKinds ==
  {"image-with-caption", "creative-image-with-caption", "single-image",
   "creative-single-image", "double-image-no-caption",
   "creative-double-image-no-caption"}

\* the block is the block of a section of this type and content
BlockOf(block, section) ==
  IF section.type = "text"
  THEN block.kind \in {"text", "creative-text"} /\ block.text = section.content
  ELSE IF section.type = "subtitle"
  THEN block.kind \in {"subtitle", "creative-subtitle"}
         /\ block.text = section.content
  ELSE block.kind \in ImageBlockKinds

Occurrences(html, kind) == Cardinality({i \in DOMAIN html : html[i].kind = kind})

\* C17: the markup of a render is, in this order: the header block, the
\* opening container, the title block if and only if the title is not
\* empty, the divider, one block per text, subtitle or image section in
\* document order, the closing container, the footer block; header,
\* divider, closing container and footer occur exactly once, also for a
\* document with no sections.
C17_MarkupOrder ==
  AppliedOk =>
    LET html == last.html
        t == IF last.content.title # "" THEN 1 ELSE 0
        known == SelectSeq(last.content.sections,
                           LAMBDA x : x.type \in {"text", "subtitle", "image"})
        n == Len(known)
    IN /\ Len(html) = 5 + t + n
       /\ html[1].kind = "header-image"
       /\ html[2].kind = "open-container"
       /\ t = 1 => /\ html[3].kind \in {"title", "creative-title"}
                   /\ html[3].text = last.content.title
       /\ html[3 + t].kind = "divider"
       /\ \A i \in 1..n : BlockOf(html[3 + t + i], known[i])
       /\ html[4 + t + n].kind = "close-container"
       /\ html[5 + t + n].kind = "footer"
       /\ \A kind \in {"header-image", "open-container", "divider",
                       "close-container", "footer"} :
            Occurrences(html, kind) = 1
       /\ Occurrences(html, "title") + Occurrences(html, "creative-title") = t

C17_Witness ==
  /\ AppliedOk
  /\ last.content.title # ""
  /\ Len(last.content.sections) = 2
  /\ last.content.sections[1].type = "subtitle"
  /\ last.content.sections[2].type = "image"
  /\ Len(last.html) = 8
  /\ last.html[3].kind = "title"
  /\ last.html[5].kind = "subtitle"

\* the last render has the document and the template id of the remembered one
SameRenderAsRemembered ==
  /\ last.op = "applyTemplate"
  /\ memo.op = "applyTemplate"
  /\ last.content = memo.content
  /\ last.id = memo.id

RenderReached(call) ==
  call.op \in RenderOps /\ call.err \in {"", "ApplyFailed"}

\* C19: a render request naming a template id that is not in the registry
\* ends in an error and returns no markup, never the default's; a render
\* request with no template id is rendered with the current default
\* template; neither changes the registry.
C19_RenderFindsTemplateOrFails ==
  [][RenderReached(last') =>
       /\ RegistryUnchanged
       /\ (last'.id # "" /\ last'.id \notin DOMAIN templates)
            => last'.err = "ApplyFailed" /\ last'.status = 500
       /\ last'.id = ""
            => /\ last'.status = 200
               /\ defaultTemplate \in DOMAIN templates
               /\ last'.templateType =
                    CallSelect(templates[defaultTemplate].selectTemplate,
                               last'.imageCount)]_vars

\* C20: registry operations are serialized, whatever requests are in
\* flight: a step is one whole operation, so after every step
\* defaultTemplate names no template that was removed (an id that names no
\* template is an inherited key, which was never one), a create request
\* that succeeds found its id unused, and a render that is answered with
\* markup for a named template found that template in the registry.
C20_RegistryOperationsSerialized ==
  [][/\ defaultTemplate' \in DOMAIN templates' \cup InheritedKeys
     /\ DOMAIN templates' \cap InheritedKeys = {}
     /\ \A id \in DOMAIN templates \ DOMAIN templates' : defaultTemplate' # id
     /\ (last' # last /\ last'.op = "POST /templates/create-custom"
           /\ last'.status = 200)
          => /\ last'.id \notin DOMAIN templates
             /\ DOMAIN templates' = DOMAIN templates \cup {last'.id}
     /\ (inflight' # inflight /\ last'.op = "POST /parse-document"
           /\ last'.status = 200 /\ last'.id # "")
          => last'.id \in DOMAIN templates']_vars

C20_Witness ==
  /\ inflight # {}
  /\ last.op = "DELETE /templates"
  /\ last.status = 200
  /\ last.id \notin DOMAIN templates
  /\ \E request \in inflight : request.template = last.id

(***************************************************************************)
(* Properties of the counters of a render.                                 *)
(***************************************************************************)
\* the blocks of the image sections, in order
ImageBlocks(html) == SelectSeq(html, LAMBDA b : b.kind \in ImageBlockKinds)

\* the locals after the first j sections of the last render were processed
LocalsAfter(j) ==
  _processContentSections(SubSeq(last.content.sections, 1, j),
                          last.templateType, last.id)

\* the caption is shown by the block, as text or in a caption slot
Shows(block, caption) ==
  \/ block.text = caption
  \/ block.displayCaption1 = Caption(caption)
  \/ block.displayCaption2 = Caption(caption)

\* C21: under double-image-no-caption and single-image the caption cursor
\* and the image index stay at 0 and 1 for the whole render, every image
\* section emits the same fixed block, and the caption of no image section
\* appears in the markup.
C21_FixedBlocksLeaveCounters ==
  (AppliedOk /\ last.templateType \in {"double-image-no-caption", "single-image"})
    => /\ last.captionIndex = 0
       /\ last.imageIndex = 1
       /\ \A j \in 0..Len(last.content.sections) :
            LocalsAfter(j).captionIndex = 0 /\ LocalsAfter(j).imageIndex = 1
       /\ Len(ImageBlocks(last.html)) = last.imageCount
       /\ \A i, j \in DOMAIN ImageBlocks(last.html) :
            ImageBlocks(last.html)[i] = ImageBlocks(last.html)[j]
       /\ \A k \in DOMAIN ImageCaptions(last.content.sections) :
            ImageCaptions(last.content.sections)[k] # ""
              => \A i \in DOMAIN last.html :
                   ~Shows(last.html[i], ImageCaptions(last.content.sections)[k])

C21_Witness ==
  /\ AppliedOk
  /\ last.templateType = "double-image-no-caption"
  /\ last.imageCount = 3
  /\ ImageCaptions(last.content.sections) = <<"c1", "c2", "c3">>
  /\ Len(ImageBlocks(last.html)) = 3
  /\ last.captionIndex = 0
  /\ last.imageIndex = 1

KnownTypes == {"text", "subtitle", "image"}

\* the sections of known type, in order
KnownSections(sections) == SelectSeq(sections, LAMBDA x : x.type \in KnownTypes)

HasUnknownSection ==
  /\ last.op = "applyTemplate"
  /\ last.content.hasSections
  /\ last.id \in DOMAIN templates \cup {""}
  /\ \E i \in DOMAIN last.content.sections :
       last.content.sections[i].type \notin KnownTypes

\* C22: a section whose type is none of text, subtitle, image does not fail
\* the render and leaves no trace in it: the image count counts the image
\* sections only, and the markup and the final caption cursor and image
\* index are those of the document without the sections of unknown type.
C22_UnknownSectionSkipped ==
  HasUnknownSection =>
    LET known == KnownSections(last.content.sections)
        out == applyTemplate(Content(last.content.title, known), last.id)
    IN /\ last.err = ""
       /\ last.imageCount =
            Cardinality({i \in DOMAIN last.content.sections :
                           last.content.sections[i].type = "image"})
       /\ last.templateType = out.templateType
       /\ last.html = out.html
       /\ last.captionIndex = out.captionIndex
       /\ last.imageIndex = out.imageIndex
       /\ Len(last.html) = 5 + Len(known)
            + (IF last.content.title # "" THEN 1 ELSE 0)

C22_Witness ==
  /\ HasUnknownSection
  /\ last.err = ""
  /\ Len(last.content.sections) = 3
  /\ last.content.sections[1].type = "image"
  /\ last.content.sections[2].type = "video"
  /\ last.content.sections[3].type = "image"
  /\ last.templateType = "double-image-with-caption"
  /\ last.imageCount = 2
  /\ Len(last.html) = 8

\* the positions of the image sections, in order
ImagePositions(sections) ==
  SelectSeq([i \in 1..Len(sections) |-> i],
            LAMBDA i : sections[i].type = "image")

IsPlaceholder(shown) == shown.text = "图注" /\ shown.number # 0

WithCaptions == AppliedOk /\ last.templateType = "double-image-with-caption"

\* C23: under double-image-with-caption the caption cursor is 2(k-1) and
\* the image index is 2k-1 when the k-th image section is processed; its
\* block takes asset 0 for the first column and asset 1 for the second, a
\* placeholder in its first slot has the circled number 2k-1 and a
\* placeholder in its second slot has the circled number 2, in every block.
C23_CountersInLockStep ==
  WithCaptions =>
    LET positions == ImagePositions(last.content.sections)
        blocks == CaptionBlocks(last.html)
    IN /\ Len(blocks) = Len(positions)
       /\ \A k \in DOMAIN positions :
            /\ LocalsAfter(positions[k] - 1).captionIndex = 2 * (k - 1)
            /\ LocalsAfter(positions[k] - 1).imageIndex = 2 * k - 1
            /\ blocks[k].imageSrc1 = 0
            /\ blocks[k].imageSrc2 = 1
            /\ IsPlaceholder(blocks[k].displayCaption1)
                 => blocks[k].displayCaption1.number = CircledNumber(2 * k - 1)
            /\ IsPlaceholder(blocks[k].displayCaption2)
                 => blocks[k].displayCaption2.number = CircledNumber(2)

\* C24: under double-image-with-caption a document with n image sections
\* gets n two-image blocks, one per image section: the captions are shown
\* in the first ceil(n/2) blocks, every later block shows two placeholders,
\* and the caption cursor ends at 2n.
C24_OneBlockPerImageSection ==
  WithCaptions =>
    LET c == ImageCaptions(last.content.sections)
        n == Len(c)
        blocks == CaptionBlocks(last.html)
        filled == (n + 1) \div 2
    IN /\ last.imageCount = n
       /\ Len(blocks) = n
       /\ Len(ImageBlocks(last.html)) = n
       /\ last.captionIndex = 2 * n
       /\ \A k \in 1..n :
            IF k > filled
            THEN /\ IsPlaceholder(blocks[k].displayCaption1)
                 /\ IsPlaceholder(blocks[k].displayCaption2)
            ELSE /\ c[2 * k - 1] # ""
                      => blocks[k].displayCaption1 = Caption(c[2 * k - 1])
                 /\ (2 * k > n) => IsPlaceholder(blocks[k].displayCaption2)

C24_Witness ==
  /\ WithCaptions
  /\ ImageCaptions(last.content.sections) = <<"c1", "c2", "c3">>
  /\ Len(CaptionBlocks(last.html)) = 3
  /\ CaptionBlocks(last.html)[2].displayCaption1 = Caption("c3")
  /\ IsPlaceholder(CaptionBlocks(last.html)[2].displayCaption2)
  /\ IsPlaceholder(CaptionBlocks(last.html)[3].displayCaption1)
  /\ IsPlaceholder(CaptionBlocks(last.html)[3].displayCaption2)
  /\ last.captionIndex = 6

(***************************************************************************)
(* Properties of leading enumerators.                                      *)
(***************************************************************************)
\* the characters of the paragraph the i-th section was made from
CharsOf(i) ==
  (CHOOSE t \in EnumeratorTexts : t.text = ParagraphOf(i).text).chars

\* the text starts with one or more digits followed by "." or "、"
StartsWithDigitsAndSeparator(chars) ==
  \E n \in 1..(Len(chars) - 1) :
    /\ \A j \in 1..n : chars[j] = "digit"
    /\ chars[n + 1] \in {"dot", "dunhao"}

\* the text starts with a numeral or 章, after 第 or not
StartsWithChapterNumeral(chars) ==
  \/ chars # <<>> /\ chars[1] \in {"numeral", "zhang"}
  \/ Len(chars) >= 2 /\ chars[1] = "di" /\ chars[2] \in {"numeral", "zhang"}

\* C25: a paragraph that starts with one or more digits followed by "." or
\* "、" becomes an image section, never a subtitle, whatever section
\* precedes it; so a subtitle whose paragraph has the chapter indicator has
\* it for its numeral or chapter form, never for the digit form.
C25_DigitEnumeratorIsImage ==
  ParsedOk =>
    \A i \in DOMAIN last.sections :
      /\ StartsWithDigitsAndSeparator(CharsOf(i)) => last.sections[i].type = "image"
      /\ (last.sections[i].type = "subtitle" /\ hasChapterIndicator(CharsOf(i)))
           => /\ StartsWithChapterNumeral(CharsOf(i))
              /\ ~StartsWithDigitsAndSeparator(CharsOf(i))

C25_Witness ==
  /\ ParsedOk
  /\ Len(last.sections) = 2
  /\ last.sections[1].type = "subtitle"
  /\ StartsWithChapterNumeral(CharsOf(1))
  /\ last.sections[2].type = "image"
  /\ StartsWithDigitsAndSeparator(CharsOf(2))
  /\ Len(CharsOf(2)) = 5

====
